---- MODULE Spec2Model ----
(***************************************************************************)
(* Model of pkg/proxy/proxy.go: the Proxy redirect manager.                *)
(*                                                                         *)
(* Callers run CreateOrUpdateRedirect, RemoveRedirect and GetStatusModel   *)
(* concurrently; every successful RemoveRedirect starts one goroutine that *)
(* releases the proxy port after portReleaseDelay.  Each action below is   *)
(* one step of one of these threads of control; the steps are cut at the   *)
(* points where a thread can block (a lock, sync.Once) or where a backend  *)
(* call starts and returns.                                                *)
(***************************************************************************)
EXTENDS Integers, Sequences, FiniteSets, TLC

\* ------------------------------------------------------------------ bounds
MaxCalls == 2        \* CreateOrUpdateRedirect calls started in one behaviour

\* the callers that run concurrently
Procs == {1, 2}

\* the configured ranges <<minPort, maxPort>>: a single port and two ports
PortRanges == {<<10000, 10000>>, <<10000, 10001>>}

\* the redirect identifiers the callers use
Ids == {"A", "B"}

\* ------------------------------------------------------- program constants
redirectCreationAttempts == 5
Uint16 == 65536      \* uint16 arithmetic is modulo this

ParserTypeHTTP == "http"
ParserTypeKafka == "kafka"
Parsers == {ParserTypeHTTP, ParserTypeKafka, "other"}

\* a *Redirect is an index of heap; 0 is the nil pointer
NoHolder == <<"none", 0>>
ProcHolder(p) == <<"proc", p>>
TaskHolder(i) == <<"task", i>>

VARIABLES
    rangeMin, rangeMax,   \* Proxy.rangeMin, Proxy.rangeMax
    allocatedPorts,       \* Proxy.allocatedPorts : port -> *Redirect
    redirects,            \* Proxy.redirects : id -> *Redirect
    heap,                 \* the Redirect values; a *Redirect is an index
    mutex,                \* Proxy.mutex (RWMutex): writer and readers
    rmutex,               \* Redirect.mutex of every Redirect
    backend,              \* calls made on every Redirect's implementation
    gcOnce,               \* sync.Once: "new", "running" or "done"
    initRuns,             \* executions of the function given to gcOnce.Do
    sweepTasks,           \* proxymap.GC goroutines started
    now,                  \* number of time.Now() readings so far
    calls,                \* CreateOrUpdateRedirect calls started
    pc,                   \* position of every caller
    local,                \* arguments and local variables of every caller
    pre,                  \* maps and Redirect values when the caller locked
    ret,                  \* what the caller's last call returned
    tasks                 \* the port-release goroutines, in spawn order

vars == <<rangeMin, rangeMax, allocatedPorts, redirects, heap, mutex, rmutex,
          backend, gcOnce, initRuns, sweepTasks, now, calls, pc, local, pre,
          ret, tasks>>

\* ------------------------------------------------------------ pure helpers
EmptyMap == <<>>

MapDelete(m, k) == [x \in DOMAIN m \ {k} |-> m[x]]

MapPut(m, k, v) == [x \in DOMAIN m \cup {k} |-> IF x = k THEN v ELSE m[x]]

\* allocatePort: the ports it can return.  Perm is a random permutation of
\* 0..n-1 with n computed in uint16; the first offset whose port is not a key
\* of allocatedPorts is returned, so any free port of the walk can come out.
\* The empty set stands for the "no available proxy ports" error.
\* (first a variant that does not look into allocatedPorts)
allocatePortSkipCheck(rmin, rmax, allocated) ==
    {(r + rmin) % Uint16 : r \in 0..(((rmax - rmin + 1) % Uint16) - 1)}

allocatePort(rmin, rmax, allocated) ==
    {port \in {(r + rmin) % Uint16 : r \in 0..(((rmax - rmin + 1) % Uint16) - 1)} :
        port \notin DOMAIN allocated}

\* case nRetry >= redirectCreationAttempts
NoMoreRetries(nRetry) == nRetry >= redirectCreationAttempts

\* (a variant in which every parser type reaches a factory)
SupportedParserAny(parser) == TRUE

\* the switch on l4.L7Parser has a factory for these
SupportedParser(parser) == parser \in {ParserTypeKafka, ParserTypeHTTP}

\* (a variant that never refuses an update)
ParserMismatchNever(r, parser) == FALSE

\* r.parserType != l4.L7Parser

ParserMismatch(r, parser) == r.parserType # parser

\* (a variant that tests "not yet done" without excluding a running caller)
OnceMustRunRacy(once) == once # "done"

\* sync.Once.Do runs the function only for the first caller

OnceMustRun(once) == once = "new"

\* newRedirect followed by the field assignments of the create path
newRedirect(id, parser, rules, t) ==
    [id |-> id, ProxyPort |-> 0, parserType |-> parser, rules |-> rules,
     created |-> t, lastUpdated |-> t]

\* the rule set of l4: every call brings its own, named by the call's number
RulesOfCall(n) == n

\* r.updateRules(l4)
updateRules(r, rules) == [r EXCEPT !.rules = rules]

\* a Redirect nothing refers to any more
Freed == [id |-> "", ProxyPort |-> 0, parserType |-> "", rules |-> 0,
          created |-> 0, lastUpdated |-> 0]

NoBackend == [updateCalls |-> 0, closeCalls |-> 0, inUpdate |-> FALSE, inClose |-> FALSE]
FreeRMutex == [w |-> 0, r |-> {}]
FreeMutex == [w |-> NoHolder, r |-> {}]

NoRedirect == <<>>
NoLocal == [op |-> "none", id |-> "", parser |-> "", rules |-> 0, path |-> "",
            r |-> 0, redir |-> NoRedirect, nRetry |-> 0, attempts |-> 0, todo |-> {}]
NoPre == <<>>
NoRet == [err |-> "", r |-> 0]

Snapshot == [allocatedPorts |-> allocatedPorts, redirects |-> redirects,
             heap |-> heap, backend |-> backend, tasks |-> Len(tasks)]

\* -------------------------------------------------------------------- Init
Init ==
    /\ \E range \in PortRanges : rangeMin = range[1] /\ rangeMax = range[2]
    /\ allocatedPorts = EmptyMap
    /\ redirects = EmptyMap
    /\ heap = <<>>
    /\ mutex = FreeMutex
    /\ rmutex = <<>>
    /\ backend = <<>>
    /\ gcOnce = "new"
    /\ initRuns = 0
    /\ sweepTasks = 0
    /\ now = 0
    /\ calls = 0
    /\ pc = [p \in Procs |-> "idle"]
    /\ local = [p \in Procs |-> NoLocal]
    /\ pre = [p \in Procs |-> NoPre]
    /\ ret = [p \in Procs |-> NoRet]
    /\ tasks = <<>>

\* what every step of a caller leaves alone is listed per action
config == <<rangeMin, rangeMax>>
maps == <<allocatedPorts, redirects>>
once == <<gcOnce, initRuns, sweepTasks>>

\* a return statement: the result is fixed, the deferred Unlock calls are
\* still to run
Return(p, err, r) ==
    /\ pc' = [pc EXCEPT ![p] = "return"]
    /\ ret' = [ret EXCEPT ![p] = [err |-> err, r |-> r]]

\* ------------------------------------------------ CreateOrUpdateRedirect
\* a caller enters CreateOrUpdateRedirect(l4, id, ...) with its own rule set;
\* id and the parser type of l4 are read for the first time under p.mutex,
\* which is where their values are drawn
CallCreateOrUpdateRedirect(p) ==
    /\ pc[p] = "idle"
    /\ calls < MaxCalls
    /\ local' = [local EXCEPT ![p] = [NoLocal EXCEPT !.op = "create",
                                      !.rules = RulesOfCall(calls + 1)]]
    /\ calls' = calls + 1
    /\ pc' = [pc EXCEPT ![p] = "once"]
    /\ UNCHANGED <<config, maps, heap, mutex, rmutex, backend, once, now, pre, ret, tasks>>

\* gcOnce.Do(...): the first caller runs the function, callers arriving while
\* it runs wait for it, later callers pass
OnceDo(p) ==
    /\ pc[p] = "once"
    /\ \/ /\ OnceMustRun(gcOnce)
          /\ gcOnce' = "running"
          /\ pc' = [pc EXCEPT ![p] = "init"]
       \/ /\ ~OnceMustRun(gcOnce)
          /\ gcOnce = "done"
          /\ gcOnce' = gcOnce
          /\ pc' = [pc EXCEPT ![p] = "lock"]
    /\ UNCHANGED <<config, maps, heap, mutex, rmutex, backend, initRuns, sweepTasks,
                   now, calls, local, pre, ret, tasks>>

\* the function given to gcOnce.Do: SetNotifier, OpenLogfile, SetMetadata and
\* the goroutine that calls proxymap.GC every 10 seconds
OnceInit(p) ==
    /\ pc[p] = "init"
    /\ initRuns' = initRuns + 1
    /\ sweepTasks' = sweepTasks + 1
    /\ gcOnce' = "done"
    /\ pc' = [pc EXCEPT ![p] = "lock"]
    /\ UNCHANGED <<config, maps, heap, mutex, rmutex, backend, now, calls, local,
                   pre, ret, tasks>>

\* p.mutex.Lock() of CreateOrUpdateRedirect and of RemoveRedirect
Lock(p) ==
    /\ pc[p] \in {"lock", "rm_lock"}
    /\ mutex = FreeMutex
    /\ mutex' = [mutex EXCEPT !.w = ProcHolder(p)]
    /\ pre' = [pre EXCEPT ![p] = Snapshot]
    /\ pc' = [pc EXCEPT ![p] = IF pc[p] = "lock" THEN "lookup" ELSE "rm_lookup"]
    /\ UNCHANGED <<config, maps, heap, rmutex, backend, once, now, calls, local, ret, tasks>>

\* r, ok := p.redirects[id]; when absent, newRedirect and the assignments
\* that follow it
Lookup(p) ==
    /\ pc[p] = "lookup"
    /\ \E id \in Ids, parser \in Parsers :
         IF id \in DOMAIN redirects
           THEN /\ local' = [local EXCEPT ![p].r = redirects[id], ![p].id = id,
                                          ![p].parser = parser, ![p].path = "update"]
                /\ pc' = [pc EXCEPT ![p] = "rlock"]
                /\ now' = now
           ELSE /\ local' = [local EXCEPT ![p].id = id,
                                ![p].parser = parser, ![p].path = "create",
                                ![p].redir = newRedirect(id, parser,
                                                         local[p].rules, now + 1)]
                /\ pc' = [pc EXCEPT ![p] = "alloc"]
                /\ now' = now + 1
    /\ UNCHANGED <<config, maps, heap, mutex, rmutex, backend, once, calls, pre, ret, tasks>>

\* r.mutex.Lock()
RLock(p) ==
    /\ pc[p] = "rlock"
    /\ rmutex[local[p].r] = FreeRMutex
    /\ rmutex' = [rmutex EXCEPT ![local[p].r].w = p]
    /\ pc' = [pc EXCEPT ![p] = "check"]
    /\ UNCHANGED <<config, maps, heap, mutex, backend, once, now, calls, local, pre, ret, tasks>>

\* (a variant that gives p.mutex up before the backend is called)
UpdateBeginUnlocked(p) ==
    /\ pc[p] = "check"
    /\ LET r == local[p].r IN
       IF ParserMismatch(heap[r], local[p].parser)
         THEN /\ Return(p, "mismatch", 0)
              /\ UNCHANGED <<heap, backend, mutex>>
         ELSE /\ heap' = [heap EXCEPT ![r] = updateRules(heap[r], local[p].rules)]
              /\ backend' = [backend EXCEPT ![r].updateCalls = @ + 1,
                                            ![r].inUpdate = TRUE]
              /\ pc' = [pc EXCEPT ![p] = "updating"]
              /\ mutex' = FreeMutex
              /\ UNCHANGED ret
    /\ UNCHANGED <<config, maps, rmutex, once, now, calls, local, pre, tasks>>

\* the parser type check, r.updateRules(l4) and the start of
\* r.implementation.UpdateRules(wg); both locks stay held
UpdateBegin(p) ==
    /\ pc[p] = "check"
    /\ LET r == local[p].r IN
       IF ParserMismatch(heap[r], local[p].parser)
         THEN /\ Return(p, "mismatch", 0)
              /\ UNCHANGED <<heap, backend>>
         ELSE /\ heap' = [heap EXCEPT ![r] = updateRules(heap[r], local[p].rules)]
              /\ backend' = [backend EXCEPT ![r].updateCalls = @ + 1,
                                            ![r].inUpdate = TRUE]
              /\ pc' = [pc EXCEPT ![p] = "updating"]
              /\ UNCHANGED ret
    /\ UNCHANGED <<config, maps, mutex, rmutex, once, now, calls, local, pre, tasks>>

\* (a variant that forgets to refresh r.lastUpdated)
UpdateEndNoStamp(p) ==
    /\ pc[p] = "updating"
    /\ LET r == local[p].r IN
       /\ backend' = [backend EXCEPT ![r].inUpdate = FALSE]
       /\ \E ok \in BOOLEAN :
            IF ok THEN Return(p, "none", r) ELSE Return(p, "update", 0)
    /\ UNCHANGED <<config, maps, heap, now, mutex, rmutex, once, calls, local, pre, tasks>>

\* (a variant that refreshes r.lastUpdated before looking at the error)
UpdateEndAlwaysStamp(p) ==
    /\ pc[p] = "updating"
    /\ LET r == local[p].r IN
       /\ backend' = [backend EXCEPT ![r].inUpdate = FALSE]
       /\ heap' = [heap EXCEPT ![r].lastUpdated = now + 1]
       /\ now' = now + 1
       /\ \E ok \in BOOLEAN :
            IF ok THEN Return(p, "none", r) ELSE Return(p, "update", 0)
    /\ UNCHANGED <<config, maps, mutex, rmutex, once, calls, local, pre, tasks>>

\* r.implementation.UpdateRules(wg) returns; on success r.lastUpdated is set
UpdateEnd(p) ==
    /\ pc[p] = "updating"
    /\ LET r == local[p].r IN
       /\ backend' = [backend EXCEPT ![r].inUpdate = FALSE]
       /\ \E ok \in BOOLEAN :
            IF ok
              THEN /\ heap' = [heap EXCEPT ![r].lastUpdated = now + 1]
                   /\ now' = now + 1
                   /\ Return(p, "none", r)
              ELSE /\ UNCHANGED <<heap, now>>
                   /\ Return(p, "update", 0)
    /\ UNCHANGED <<config, maps, mutex, rmutex, once, calls, local, pre, tasks>>

\* one pass of the retryCreatePort loop up to the call of the factory:
\* allocatePort, redir.ProxyPort = to, and the switch on l4.L7Parser
AllocateAndConstruct(p) ==
    /\ pc[p] = "alloc"
    /\ LET free == allocatePort(rangeMin, rangeMax, allocatedPorts) IN
       IF free = {}
         THEN /\ Return(p, "exhausted", 0)
              /\ UNCHANGED local
         ELSE \E to \in free :
                IF SupportedParser(local[p].parser)
                  THEN /\ local' = [local EXCEPT ![p].redir.ProxyPort = to,
                                                 ![p].attempts = @ + 1]
                       /\ pc' = [pc EXCEPT ![p] = "construct"]
                       /\ UNCHANGED ret
                  ELSE /\ local' = [local EXCEPT ![p].redir.ProxyPort = to]
                       /\ Return(p, "unsupported", 0)
    /\ UNCHANGED <<config, maps, heap, mutex, rmutex, backend, once, now, calls, pre, tasks>>

\* (a variant that reserves the candidate port before the factory's result
\* is known)
RegisterEarly(p, ok, r) ==
    /\ allocatedPorts' = MapPut(allocatedPorts, local[p].redir.ProxyPort, r)
    /\ redirects' = IF ok THEN MapPut(redirects, local[p].id, r) ELSE redirects

\* (a variant that indexes the redirect and forgets to reserve its port)
RegisterNoPort(p, ok, r) ==
    /\ allocatedPorts' = allocatedPorts
    /\ redirects' = IF ok THEN MapPut(redirects, local[p].id, r) ELSE redirects

\* p.allocatedPorts[to] = redir; p.redirects[id] = redir, under case err == nil
Register(p, ok, r) ==
    IF ok
      THEN /\ allocatedPorts' = MapPut(allocatedPorts, local[p].redir.ProxyPort, r)
           /\ redirects' = MapPut(redirects, local[p].id, r)
      ELSE UNCHANGED maps

\* the factory returns: the switch on err registers the redirect, gives up,
\* or goes round the loop again
ConstructEnd(p) ==
    /\ pc[p] = "construct"
    /\ \E ok \in BOOLEAN :
         LET r == Len(heap) + 1 IN
         /\ Register(p, ok, r)
         /\ IF ok
              THEN /\ heap' = Append(heap, local[p].redir)
                   /\ rmutex' = Append(rmutex, FreeRMutex)
                   /\ backend' = Append(backend, NoBackend)
                   /\ Return(p, "none", r)
                   /\ UNCHANGED local
              ELSE /\ UNCHANGED <<heap, rmutex, backend>>
                   /\ IF NoMoreRetries(local[p].nRetry)
                        THEN /\ Return(p, "backend", 0)
                             /\ UNCHANGED local
                        ELSE /\ local' = [local EXCEPT ![p].nRetry = @ + 1]
                             /\ pc' = [pc EXCEPT ![p] = "alloc"]
                             /\ UNCHANGED ret
    /\ UNCHANGED <<config, mutex, once, now, calls, pre, tasks>>

\* (a variant whose update path returns without its r.mutex.Unlock())
UnlockKeepsRLock(p) ==
    /\ pc[p] = "return"
    /\ rmutex' = rmutex
    /\ mutex' = FreeMutex
    /\ pc' = [pc EXCEPT ![p] = "idle"]
    /\ local' = [local EXCEPT ![p] = NoLocal]
    /\ pre' = [pre EXCEPT ![p] = NoPre]
    /\ ret' = [ret EXCEPT ![p] = NoRet]
    /\ UNCHANGED <<config, maps, heap, backend, once, now, calls, tasks>>

\* the deferred r.mutex.Unlock() and p.mutex.Unlock() of a returning
\* CreateOrUpdateRedirect or RemoveRedirect; the caller has its result
Unlock(p) ==
    /\ pc[p] = "return"
    /\ rmutex' = [i \in DOMAIN rmutex |->
                    IF rmutex[i].w = p THEN FreeRMutex ELSE rmutex[i]]
    /\ mutex' = FreeMutex
    /\ pc' = [pc EXCEPT ![p] = "idle"]
    /\ local' = [local EXCEPT ![p] = NoLocal]
    /\ pre' = [pre EXCEPT ![p] = NoPre]
    /\ ret' = [ret EXCEPT ![p] = NoRet]
    /\ UNCHANGED <<config, maps, heap, backend, once, now, calls, tasks>>

\* ---------------------------------------------------------- RemoveRedirect
CallRemoveRedirect(p) ==
    /\ pc[p] = "idle"
    /\ local' = [local EXCEPT ![p] = [NoLocal EXCEPT !.op = "remove"]]
    /\ pc' = [pc EXCEPT ![p] = "rm_lock"]
    /\ UNCHANGED <<config, maps, heap, mutex, rmutex, backend, once, now, calls,
                   pre, ret, tasks>>

\* the lookup of id; when found, r.implementation.Close(wg) starts
RemoveLookup(p) ==
    /\ pc[p] = "rm_lookup"
    /\ \E id \in Ids :
       IF id \notin DOMAIN redirects
         THEN /\ Return(p, "notfound", 0)
              /\ local' = [local EXCEPT ![p].id = id]
              /\ UNCHANGED backend
         ELSE LET r == redirects[id] IN
              /\ local' = [local EXCEPT ![p].r = r, ![p].id = id]
              /\ backend' = [backend EXCEPT ![r].closeCalls = @ + 1,
                                            ![r].inClose = TRUE]
              /\ pc' = [pc EXCEPT ![p] = "closing"]
              /\ UNCHANGED ret
    /\ UNCHANGED <<config, maps, heap, mutex, rmutex, once, now, calls, pre, tasks>>

\* (a variant that frees the port together with the identifier)
RemoveFromMapsEager(id, r) ==
    /\ redirects' = MapDelete(redirects, id)
    /\ allocatedPorts' = MapDelete(allocatedPorts, heap[r].ProxyPort)

\* what RemoveRedirect itself does to the two maps: delete(p.redirects, id)
RemoveFromMaps(id, r) ==
    /\ redirects' = MapDelete(redirects, id)
    /\ allocatedPorts' = allocatedPorts

\* (a variant that never starts the release goroutine)
RemoveEndNoTask(p) ==
    /\ pc[p] = "closing"
    /\ LET r == local[p].r IN
       /\ backend' = [backend EXCEPT ![r].inClose = FALSE]
       /\ RemoveFromMaps(local[p].id, r)
       /\ tasks' = tasks
       /\ Return(p, "none", r)
    /\ UNCHANGED <<config, heap, mutex, rmutex, once, now, calls, local, pre>>

\* Close returns; delete(p.redirects, id); the release goroutine is started;
\* return nil
RemoveEnd(p) ==
    /\ pc[p] = "closing"
    /\ LET r == local[p].r IN
       /\ backend' = [backend EXCEPT ![r].inClose = FALSE]
       /\ RemoveFromMaps(local[p].id, r)
       /\ tasks' = Append(tasks, [r |-> r, pc |-> "sleeping", cleaned |-> 0])
       /\ Return(p, "none", r)
    /\ UNCHANGED <<config, heap, mutex, rmutex, once, now, calls, local, pre>>

\* -------------------------------------------- the port-release goroutine
\* time.Sleep(portReleaseDelay) is over; proxymap.CleanupOnRedirectClose is
\* called with r.ProxyPort, which the goroutine's record keeps
TaskCleanup(i) ==
    /\ tasks[i].pc = "sleeping"
    /\ tasks' = [tasks EXCEPT ![i].pc = "cleaned",
                              ![i].cleaned = heap[tasks[i].r].ProxyPort]
    /\ UNCHANGED <<config, maps, heap, mutex, rmutex, backend, once, now, calls,
                   pc, local, pre, ret>>

\* (a variant that takes the lock without the cleanup before it)
TaskLockEarly(i) ==
    /\ tasks[i].pc \in {"sleeping", "cleaned"}
    /\ mutex = FreeMutex
    /\ mutex' = [mutex EXCEPT !.w = TaskHolder(i)]
    /\ tasks' = [tasks EXCEPT ![i].pc = "locked"]
    /\ UNCHANGED <<config, maps, heap, rmutex, backend, once, now, calls,
                   pc, local, pre, ret>>

\* p.mutex.Lock()
TaskLock(i) ==
    /\ tasks[i].pc = "cleaned"
    /\ mutex = FreeMutex
    /\ mutex' = [mutex EXCEPT !.w = TaskHolder(i)]
    /\ tasks' = [tasks EXCEPT ![i].pc = "locked"]
    /\ UNCHANGED <<config, maps, heap, rmutex, backend, once, now, calls,
                   pc, local, pre, ret>>

\* (a variant that frees the port of whatever redirect the identifier has now)
TaskReleaseById(i) ==
    /\ tasks[i].pc = "locked"
    /\ LET id == heap[tasks[i].r].id
           port == IF id \in DOMAIN redirects THEN heap[redirects[id]].ProxyPort
                   ELSE heap[tasks[i].r].ProxyPort IN
       allocatedPorts' = MapDelete(allocatedPorts, port)
    /\ mutex' = FreeMutex
    /\ tasks' = [tasks EXCEPT ![i].pc = "done"]
    /\ heap' = [heap EXCEPT ![tasks[i].r] = Freed]
    /\ backend' = [backend EXCEPT ![tasks[i].r].updateCalls = 0]
    /\ UNCHANGED <<config, redirects, rmutex, once, now, calls, pc, local, pre, ret>>

\* delete(p.allocatedPorts, r.ProxyPort); p.mutex.Unlock(); the goroutine
\* ends and with it the last use of r, whose fields are forgotten
TaskRelease(i) ==
    /\ tasks[i].pc = "locked"
    /\ allocatedPorts' = MapDelete(allocatedPorts, heap[tasks[i].r].ProxyPort)
    /\ mutex' = FreeMutex
    /\ tasks' = [tasks EXCEPT ![i].pc = "done"]
    /\ heap' = [heap EXCEPT ![tasks[i].r] = Freed]
    /\ backend' = [backend EXCEPT ![tasks[i].r].updateCalls = 0]
    /\ UNCHANGED <<config, redirects, rmutex, once, now, calls, pc, local, pre, ret>>

\* ---------------------------------------------------------- GetStatusModel
\* some p.mutex.Lock() is blocked: a caller's or a release goroutine's
WriterWaiting ==
    \/ \E q \in Procs : pc[q] \in {"lock", "rm_lock"}
    \/ \E i \in DOMAIN tasks : tasks[i].pc = "cleaned"

\* p.mutex.RLock(), which a held or a blocked Lock() keeps out (sync.RWMutex:
\* a blocked Lock call excludes new readers); getRedirectsStatusModel starts
\* to range over p.redirects
StatusRLock(p) ==
    /\ pc[p] = "idle"
    /\ mutex.w = NoHolder
    /\ ~WriterWaiting
    /\ mutex' = [mutex EXCEPT !.r = @ \cup {p}]
    /\ local' = [local EXCEPT ![p] = [NoLocal EXCEPT !.op = "status",
                    !.todo = {redirects[id] : id \in DOMAIN redirects}]]
    /\ pc' = [pc EXCEPT ![p] = "status"]
    /\ UNCHANGED <<config, maps, heap, rmutex, backend, once, now, calls, pre, ret, tasks>>

\* getRedirectStatusModel(r): r.mutex.RLock(), read the fields, RUnlock()
StatusRedirect(p) ==
    /\ pc[p] = "status"
    /\ \E r \in local[p].todo :
         /\ rmutex[r].w = 0
         /\ local' = [local EXCEPT ![p].todo = @ \ {r}]
    /\ UNCHANGED <<config, maps, heap, mutex, rmutex, backend, once, now, calls,
                   pc, pre, ret, tasks>>

\* the model is returned; the deferred p.mutex.RUnlock()
StatusReturn(p) ==
    /\ pc[p] = "status"
    /\ local[p].todo = {}
    /\ mutex' = [mutex EXCEPT !.r = @ \ {p}]
    /\ pc' = [pc EXCEPT ![p] = "idle"]
    /\ local' = [local EXCEPT ![p] = NoLocal]
    /\ UNCHANGED <<config, maps, heap, rmutex, backend, once, now, calls, pre, ret, tasks>>

\* -------------------------------------------------------------------- Next
Next ==
    \/ \E p \in Procs : CallCreateOrUpdateRedirect(p)
    \/ \E p \in Procs : OnceDo(p)
    \/ \E p \in Procs : OnceInit(p)
    \/ \E p \in Procs : Lock(p)
    \/ \E p \in Procs : Lookup(p)
    \/ \E p \in Procs : RLock(p)
    \/ \E p \in Procs : UpdateBegin(p)
    \/ \E p \in Procs : UpdateEnd(p)
    \/ \E p \in Procs : AllocateAndConstruct(p)
    \/ \E p \in Procs : ConstructEnd(p)
    \/ \E p \in Procs : Unlock(p)
    \/ \E p \in Procs : CallRemoveRedirect(p)
    \/ \E p \in Procs : RemoveLookup(p)
    \/ \E p \in Procs : RemoveEnd(p)
    \/ \E i \in DOMAIN tasks : TaskCleanup(i)
    \/ \E i \in DOMAIN tasks : TaskLock(i)
    \/ \E i \in DOMAIN tasks : TaskRelease(i)
    \/ \E p \in Procs : StatusRLock(p)
    \/ \E p \in Procs : StatusRedirect(p)
    \/ \E p \in Procs : StatusReturn(p)

Spec == Init /\ [][Next]_vars

\* ------------------------------------------------------------- the claims
\* the ports of the configured range
PortsOfRange == rangeMin..rangeMax

\* caller p has reached a return statement of the create path
ReturnedCreate(p) == pc[p] = "return" /\ local[p].path = "create"

\* the port-release goroutines that have not deleted their port yet
PendingTasks == {i \in DOMAIN tasks : tasks[i].pc # "done"}

\* C1: no two redirects of the redirects index have the same ProxyPort, and
\* the port a successful create returns was not a key of allocatedPorts when
\* the create took it (which is the map as it was when the call locked, and
\* as it is while the candidate waits for its backend).
C1_PortUniqueness ==
    /\ \A id1 \in DOMAIN redirects : \A id2 \in DOMAIN redirects :
          id1 # id2 => heap[redirects[id1]].ProxyPort # heap[redirects[id2]].ProxyPort
    /\ \A p \in Procs :
          /\ pc[p] = "construct" => local[p].redir.ProxyPort \notin DOMAIN allocatedPorts
          /\ (ReturnedCreate(p) /\ ret[p].err = "none") =>
                heap[ret[p].r].ProxyPort \notin DOMAIN pre[p].allocatedPorts

C1_Witness ==
    /\ Cardinality(DOMAIN redirects) = 2
    /\ \E p \in Procs : ReturnedCreate(p) /\ ret[p].err = "none"
                        /\ pre[p].allocatedPorts # EmptyMap

\* C2: from a successful RemoveRedirect of a redirect on port P until that
\* removal's goroutine deletes P, P stays a key of allocatedPorts owned by the
\* removed redirect, no create holds P as its candidate or result, and no
\* indexed redirect has P.
C2_GracePeriod ==
    \A i \in PendingTasks :
       LET P == heap[tasks[i].r].ProxyPort IN
       /\ P \in DOMAIN allocatedPorts
       /\ allocatedPorts[P] = tasks[i].r
       /\ \A p \in Procs : local[p].path = "create" => local[p].redir.ProxyPort # P
       /\ \A id \in DOMAIN redirects : heap[redirects[id]].ProxyPort # P

C2_Witness ==
    /\ PendingTasks # {}
    /\ \E p \in Procs : /\ ReturnedCreate(p) /\ ret[p].err = "none"
                        /\ pre[p].tasks = Len(tasks)
                        /\ pre[p].allocatedPorts # EmptyMap

\* C3: a create that gives up because the backend factory failed every time
\* has called the factory exactly redirectCreationAttempts times, and no
\* create calls it more often than that.
C3_RetryBound ==
    \A p \in Procs :
       /\ local[p].attempts <= redirectCreationAttempts
       /\ (ReturnedCreate(p) /\ ret[p].err = "backend") =>
             local[p].attempts = redirectCreationAttempts

\* C4: when the create path returns an error, allocatedPorts and redirects
\* are what they were when the call took the lock; the identifier is not
\* indexed and the last candidate port is not reserved.
C4_NoPartialState ==
    \A p \in Procs :
       (ReturnedCreate(p) /\ ret[p].err # "none") =>
          /\ ret[p].err \in {"exhausted", "unsupported", "backend"}
          /\ allocatedPorts = pre[p].allocatedPorts
          /\ redirects = pre[p].redirects
          /\ local[p].id \notin DOMAIN redirects
          /\ local[p].redir.ProxyPort \notin DOMAIN allocatedPorts
          /\ ret[p].r = 0

C4_Witness ==
    \E p \in Procs : /\ ReturnedCreate(p) /\ ret[p].err = "backend"
                     /\ allocatedPorts # EmptyMap

\* C5: an update whose parser type differs from the redirect's returns the
\* mismatch error, never reaches UpdateRules, and leaves every Redirect
\* (rules, ProxyPort, parserType, lastUpdated), the backend's call counts and
\* both maps as they were.
C5_ParserImmutability ==
    \A p \in Procs :
       /\ (local[p].path = "update" /\ heap[local[p].r].parserType # local[p].parser) =>
             \/ pc[p] \in {"rlock", "check"}
             \/ pc[p] = "return" /\ ret[p].err = "mismatch"
       /\ (pc[p] = "return" /\ ret[p].err = "mismatch") =>
             /\ heap = pre[p].heap
             /\ backend = pre[p].backend
             /\ allocatedPorts = pre[p].allocatedPorts
             /\ redirects = pre[p].redirects
             /\ ret[p].r = 0

C5_Witness ==
    \E p \in Procs : /\ pc[p] = "return" /\ ret[p].err = "mismatch"
                     /\ heap[local[p].r].parserType = ParserTypeHTTP
                     /\ local[p].parser = ParserTypeKafka

\* C6: when every port of the range was reserved as the call took the lock,
\* the create path goes from its first allocatePort straight to the
\* ports-exhausted error: no factory call, no retry, both maps unchanged.
C6_PortsExhausted ==
    \A p \in Procs :
       (local[p].path = "create" /\ PortsOfRange \subseteq DOMAIN pre[p].allocatedPorts) =>
          /\ local[p].attempts = 0
          /\ local[p].nRetry = 0
          /\ \/ pc[p] = "alloc"
             \/ pc[p] = "return" /\ ret[p].err = "exhausted"
          /\ allocatedPorts = pre[p].allocatedPorts
          /\ redirects = pre[p].redirects

\* the only port is reserved by a removed redirect still in its grace period
C6_Witness ==
    \E p \in Procs : /\ ReturnedCreate(p) /\ ret[p].err = "exhausted"
                     /\ redirects = EmptyMap
                     /\ PendingTasks # {}

\* C7: when RemoveRedirect returns nil it still holds the lock it took, the
\* identifier has left redirects, Close was called once on the redirect,
\* allocatedPorts is unchanged and one goroutine was started; the port stays a
\* key until that goroutine's own delete.
C7_TwoSpeedRelease ==
    /\ \A p \in Procs :
          (pc[p] = "return" /\ local[p].op = "remove" /\ ret[p].err = "none") =>
             LET r == local[p].r IN
             /\ mutex.w = ProcHolder(p)
             /\ redirects = MapDelete(pre[p].redirects, local[p].id)
             /\ pre[p].redirects[local[p].id] = r
             /\ allocatedPorts = pre[p].allocatedPorts
             /\ heap[r].ProxyPort \in DOMAIN allocatedPorts
             /\ backend[r].closeCalls = 1
             /\ pre[p].backend[r].closeCalls = 0
             /\ Len(tasks) = pre[p].tasks + 1
             /\ tasks[Len(tasks)].r = r
             /\ tasks[Len(tasks)].pc \in {"sleeping", "cleaned"}
             /\ \A i \in DOMAIN tasks : tasks[i].r = r => i = Len(tasks)
    /\ \A i \in DOMAIN tasks :
          /\ tasks[i].pc # "done" => heap[tasks[i].r].ProxyPort \in DOMAIN allocatedPorts
          /\ tasks[i].pc = "done" => \A port \in DOMAIN allocatedPorts :
                                        allocatedPorts[port] # tasks[i].r

C7_Witness ==
    \E p \in Procs : /\ pc[p] = "return" /\ local[p].op = "remove" /\ ret[p].err = "none"
                     /\ \E i \in DOMAIN tasks : tasks[i].pc = "done"

C9_InitOnce ==
    /\ initRuns <= 1
    /\ sweepTasks = initRuns
    /\ (gcOnce = "done") = (initRuns = 1)
    /\ \A p \in Procs :
          (local[p].op = "create" /\ pc[p] \notin {"once", "init"}) => initRuns = 1

\* both callers went into gcOnce.Do before either had the lock
C9_Witness ==
    /\ initRuns = 1
    /\ \A p \in Procs : pc[p] = "lock"

\* C10 as stated: the create path with an unsupported parser type returns
\* the unsupported-parser error whatever the state.
C10_UnsupportedAlways ==
    \A p \in Procs :
       (ReturnedCreate(p) /\ ~SupportedParser(local[p].parser)) =>
          ret[p].err = "unsupported"

\* C10 as amended: the create path with an unsupported parser type calls no
\* factory and makes no retry; it returns the unsupported-parser error when
\* allocatePort handed out a port and allocatePort's ports-exhausted error
\* when it handed out none; both maps are unchanged.
C10_UnsupportedParser ==
    \A p \in Procs :
       (local[p].path = "create" /\ local[p].parser \notin {ParserTypeHTTP, ParserTypeKafka}) =>
          /\ pc[p] \in {"alloc", "return"}
          /\ local[p].attempts = 0
          /\ local[p].nRetry = 0
          /\ allocatedPorts = pre[p].allocatedPorts
          /\ redirects = pre[p].redirects
          /\ pc[p] = "return" =>
               ret[p] = [err |-> IF allocatePort(rangeMin, rangeMax, pre[p].allocatedPorts) = {}
                                   THEN "exhausted" ELSE "unsupported",
                         r |-> 0]

C10_Witness ==
    \E p \in Procs : /\ ReturnedCreate(p) /\ ret[p].err = "unsupported"
                     /\ allocatedPorts # EmptyMap

\* C11: while the goroutine of a removed redirect (identifier id, port P) has
\* not deleted P, P stays reserved for the removed Redirect; a call for id
\* that finds id absent takes the create path and fails with ports exhausted
\* when no other port is free; the redirect it registers is another
\* Redirect, created later, on a port other than P.  The goroutine's delete
\* takes P only: every indexed redirect keeps its own port reserved.
C11_RecreateDuringGrace ==
    /\ \A i \in PendingTasks :
          LET old == tasks[i].r
              P == heap[old].ProxyPort
              id == heap[old].id IN
          /\ P \in DOMAIN allocatedPorts /\ allocatedPorts[P] = old
          /\ id \in DOMAIN redirects =>
                /\ redirects[id] # old
                /\ heap[redirects[id]].ProxyPort # P
                /\ heap[redirects[id]].created > heap[old].created
          /\ \A p \in Procs :
                (/\ local[p].op = "create" /\ local[p].id = id
                 /\ pc[p] \in {"rlock", "check", "updating", "alloc", "construct", "return"}
                 /\ id \notin DOMAIN pre[p].redirects) =>
                   /\ local[p].path = "create"
                   /\ local[p].redir.ProxyPort # P
                   /\ (PortsOfRange \subseteq DOMAIN pre[p].allocatedPorts /\ pc[p] = "return")
                         => ret[p].err = "exhausted"
                   /\ (pc[p] = "return" /\ ret[p].err = "none") =>
                         ret[p].r # old /\ heap[ret[p].r].ProxyPort # P
    /\ \A id \in DOMAIN redirects :
          LET port == heap[redirects[id]].ProxyPort IN
          port \in DOMAIN allocatedPorts /\ allocatedPorts[port] = redirects[id]

\* the identifier is indexed again while its old port is still in its grace
\* period
C11_Witness ==
    \E i \in PendingTasks, p \in Procs :
       /\ ReturnedCreate(p) /\ ret[p].err = "none"
       /\ local[p].id = heap[tasks[i].r].id
       /\ tasks[i].pc = "cleaned"

\* caller p has reached a return statement of the update path
ReturnedUpdate(p) == pc[p] = "return" /\ local[p].path = "update"

\* C12: a successful update returns the Redirect the identifier had, with the
\* call's rule set and a later lastUpdated; its ProxyPort, created and
\* parserType, every other Redirect and both maps are as they were, and no
\* port was allocated; UpdateRules was called once.
C12_UpdateFrame ==
    \A p \in Procs :
       (ReturnedUpdate(p) /\ ret[p].err = "none") =>
          LET r == ret[p].r IN
          /\ r = pre[p].redirects[local[p].id]
          /\ heap[r].parserType = local[p].parser
          /\ heap[r].rules = local[p].rules
          /\ heap[r].lastUpdated > pre[p].heap[r].lastUpdated
          /\ heap[r] = [pre[p].heap[r] EXCEPT !.rules = local[p].rules,
                                              !.lastUpdated = heap[r].lastUpdated]
          /\ \A o \in DOMAIN heap : o # r => heap[o] = pre[p].heap[o]
          /\ DOMAIN heap = DOMAIN pre[p].heap
          /\ allocatedPorts = pre[p].allocatedPorts
          /\ redirects = pre[p].redirects
          /\ local[p].attempts = 0 /\ local[p].redir = NoRedirect
          /\ backend[r].updateCalls = pre[p].backend[r].updateCalls + 1

\* the update brought a rule set other than the one the redirect had
C12_Witness ==
    \E p \in Procs : /\ ReturnedUpdate(p) /\ ret[p].err = "none"
                     /\ pre[p].heap[ret[p].r].rules # heap[ret[p].r].rules

\* C17: when UpdateRules fails the call returns the error and no Redirect;
\* the redirect stays indexed on the same reserved port, both maps are
\* unchanged and lastUpdated is what it was.
C17_FailedUpdate ==
    \A p \in Procs :
       (ReturnedUpdate(p) /\ ret[p].err = "update") =>
          LET r == local[p].r IN
          /\ ret[p].r = 0
          /\ local[p].id \in DOMAIN redirects /\ redirects[local[p].id] = r
          /\ heap[r].ProxyPort = pre[p].heap[r].ProxyPort
          /\ heap[r].ProxyPort \in DOMAIN allocatedPorts
          /\ allocatedPorts[heap[r].ProxyPort] = r
          /\ allocatedPorts = pre[p].allocatedPorts
          /\ redirects = pre[p].redirects
          /\ heap[r].lastUpdated = pre[p].heap[r].lastUpdated
          /\ heap[r].created = pre[p].heap[r].created
          /\ backend[r].updateCalls = pre[p].backend[r].updateCalls + 1
          /\ backend[r].closeCalls = 0

C17_Witness ==
    \E p \in Procs : /\ ReturnedUpdate(p) /\ ret[p].err = "update"
                     /\ heap[local[p].r].rules # pre[p].heap[local[p].r].rules

\* C13: a goroutine that holds the lock for its delete, or has deleted its
\* port, has called CleanupOnRedirectClose with that port before; until the
\* delete the port stays reserved for the removed Redirect and is no caller's
\* candidate, so no create is assigned it between removal and cleanup.
C13_CleanupBeforeRelease ==
    \A i \in DOMAIN tasks :
       /\ tasks[i].pc = "sleeping" => tasks[i].cleaned = 0
       /\ tasks[i].pc \in {"cleaned", "locked"} =>
             tasks[i].cleaned = heap[tasks[i].r].ProxyPort
       /\ tasks[i].pc = "done" =>
             /\ tasks[i].cleaned \in PortsOfRange
             /\ tasks[i].cleaned \in DOMAIN allocatedPorts =>
                   allocatedPorts[tasks[i].cleaned] # tasks[i].r
       /\ tasks[i].pc # "done" =>
             LET P == heap[tasks[i].r].ProxyPort IN
             /\ P \in DOMAIN allocatedPorts /\ allocatedPorts[P] = tasks[i].r
             /\ \A p \in Procs : pc[p] = "construct" => local[p].redir.ProxyPort # P

\* a port that was cleaned and released is reserved again by a new redirect
C13_Witness ==
    \E i \in DOMAIN tasks :
       /\ tasks[i].pc = "done"
       /\ tasks[i].cleaned \in DOMAIN allocatedPorts

\* C14: every key of allocatedPorts is a port of [rangeMin, rangeMax] and
\* maps to a Redirect whose ProxyPort is that key; every Redirect of
\* redirects has its ProxyPort as a key of allocatedPorts that maps to it.
C14_IndexMaps ==
    /\ \A port \in DOMAIN allocatedPorts :
          /\ rangeMin <= port /\ port <= rangeMax
          /\ allocatedPorts[port] \in DOMAIN heap
          /\ heap[allocatedPorts[port]].ProxyPort = port
    /\ \A id \in DOMAIN redirects :
          /\ redirects[id] \in DOMAIN heap
          /\ heap[redirects[id]].id = id
          /\ heap[redirects[id]].ProxyPort \in DOMAIN allocatedPorts
          /\ allocatedPorts[heap[redirects[id]].ProxyPort] = redirects[id]

\* both maps are populated, one port being held by a removed redirect
C14_Witness ==
    /\ Cardinality(DOMAIN allocatedPorts) = 2
    /\ Cardinality(DOMAIN redirects) = 1
    /\ \E i \in DOMAIN tasks : tasks[i].pc = "locked"

\* C15: the keys of allocatedPorts are exactly the ports of the indexed
\* redirects and of the removed redirects whose goroutine has not done its
\* delete, each counted once.
C15_NoLeakedReservation ==
    LET active == {heap[redirects[id]].ProxyPort : id \in DOMAIN redirects}
        grace == {heap[tasks[i].r].ProxyPort : i \in PendingTasks} IN
    /\ DOMAIN allocatedPorts = active \cup grace
    /\ active \cap grace = {}
    /\ Cardinality(DOMAIN allocatedPorts) =
          Cardinality(DOMAIN redirects) + Cardinality(PendingTasks)

\* a reservation has come and gone, another is in its grace period
C15_Witness ==
    /\ \E i \in DOMAIN tasks : tasks[i].pc = "done"
    /\ PendingTasks # {}
    /\ redirects = EmptyMap

\* ---- allocatePort over the configurable ranges, the widest included ----
\* ranges <<minPort, maxPort>> with minPort <= maxPort, up to all of uint16
AllocRanges == {<<0, 65535>>, <<0, 1>>, <<10000, 10000>>, <<10000, 10001>>,
                <<65534, 65535>>}

\* the reserved ports, in the order their redirects were created
ReservedSeqs(range) ==
    {<<>>, <<range[1]>>, <<range[2]>>} \cup
    (IF range[1] # range[2] THEN {<<range[1], range[2]>>} ELSE {})

\* a Proxy whose reserved ports belong to redirects of identifier "A" that
\* were created and removed one after the other and are in their grace period
InitAlloc ==
    \E range \in AllocRanges : \E reserved \in ReservedSeqs(range) :
       /\ rangeMin = range[1] /\ rangeMax = range[2]
       /\ heap = [k \in DOMAIN reserved |->
                    [newRedirect("A", ParserTypeHTTP, RulesOfCall(k), k)
                       EXCEPT !.ProxyPort = reserved[k]]]
       /\ allocatedPorts = [port \in {reserved[k] : k \in DOMAIN reserved} |->
                              CHOOSE k \in DOMAIN reserved : reserved[k] = port]
       /\ redirects = EmptyMap
       /\ tasks = [k \in DOMAIN reserved |-> [r |-> k, pc |-> "sleeping", cleaned |-> 0]]
       /\ rmutex = [k \in DOMAIN reserved |-> FreeRMutex]
       /\ backend = [k \in DOMAIN reserved |-> [NoBackend EXCEPT !.closeCalls = 1]]
       /\ mutex = FreeMutex
       /\ gcOnce = "done" /\ initRuns = 1 /\ sweepTasks = 1
       /\ now = Len(reserved)
       /\ calls = 0
       /\ pc = [p \in Procs |-> "idle"]
       /\ local = [p \in Procs |-> NoLocal]
       /\ pre = [p \in Procs |-> NoPre]
       /\ ret = [p \in Procs |-> NoRet]

\* the create path up to the candidate port that allocatePort hands out
NextAlloc ==
    \/ \E p \in Procs : CallCreateOrUpdateRedirect(p)
    \/ \E p \in Procs : OnceDo(p)
    \/ \E p \in Procs : Lock(p)
    \/ \E p \in Procs : Lookup(p)
    \/ \E p \in Procs : AllocateAndConstruct(p)
    \/ \E p \in Procs : Unlock(p)

SpecAlloc == InitAlloc /\ [][NextAlloc]_vars

\* C16: whenever a port of [rangeMin, rangeMax] is not a key of
\* allocatedPorts, allocatePort returns such a port; it returns the exhausted
\* error only when every port of the range is a key; it does not change
\* allocatedPorts.
C16_AllocatePortResult ==
    \A p \in Procs :
       (local[p].path = "create" /\ pc[p] \in {"construct", "return"}) =>
          /\ allocatedPorts = pre[p].allocatedPorts
          /\ (ret[p].err = "exhausted") = (PortsOfRange \subseteq DOMAIN allocatedPorts)
          /\ ret[p].err # "exhausted" =>
                /\ local[p].redir.ProxyPort \in PortsOfRange
                /\ local[p].redir.ProxyPort \notin DOMAIN allocatedPorts

\* C18: for every Redirect at most one backend call (UpdateRules or Close) is
\* executing at any time, whatever the interleaving of CreateOrUpdateRedirect
\* and RemoveRedirect, and UpdateRules is never running or started on a
\* redirect whose Close has been invoked.
C18_PerRedirectSerialization ==
    \A r \in DOMAIN backend :
       LET updaters == {p \in Procs : pc[p] = "updating" /\ local[p].r = r}
           closers == {p \in Procs : pc[p] = "closing" /\ local[p].r = r} IN
       /\ Cardinality(updaters \cup closers) <= 1
       /\ backend[r].inUpdate = (updaters # {})
       /\ backend[r].inClose = (closers # {})
       /\ ~(backend[r].inUpdate /\ backend[r].inClose)
       /\ backend[r].inUpdate => backend[r].closeCalls = 0
       /\ backend[r].closeCalls <= 1

\* a Redirect that was updated is being closed while the other caller waits
C18_Witness ==
    \E p \in Procs : \E q \in Procs \ {p} :
       /\ pc[p] = "closing"
       /\ backend[local[p].r].inClose
       /\ backend[local[p].r].updateCalls >= 1
       /\ pc[q] \in {"lock", "rm_lock"}

\* the steps of caller p
ProcStep(p) ==
    \/ OnceDo(p) \/ OnceInit(p) \/ Lock(p) \/ Lookup(p) \/ RLock(p)
    \/ UpdateBegin(p) \/ UpdateEnd(p) \/ AllocateAndConstruct(p)
    \/ ConstructEnd(p) \/ Unlock(p) \/ RemoveLookup(p) \/ RemoveEnd(p)
    \/ StatusRedirect(p) \/ StatusReturn(p)

\* the steps of the release goroutine i
TaskStep(i) == TaskCleanup(i) \/ TaskLock(i) \/ TaskRelease(i)

\* caller p holds some lock
HoldsLock(p) ==
    \/ mutex.w = ProcHolder(p)
    \/ p \in mutex.r
    \/ \E r \in DOMAIN rmutex : rmutex[r].w = p

\* C19: a per-redirect lock is only ever held by a caller that holds the
\* structural lock, so whoever requests the structural lock holds no
\* per-redirect lock; a caller outside an operation (before its call or after
\* its return) holds no lock; and no state is a deadlock: whoever is inside
\* an operation can take its next step (every lock holder among them) unless
\* it is blocked at a lock that is held or at a gcOnce.Do that is running,
\* whose runner can step.
C19_LockOrdering ==
    /\ \A r \in DOMAIN rmutex :
          rmutex[r].w # 0 =>
             /\ mutex.w = ProcHolder(rmutex[r].w)
             /\ pc[rmutex[r].w] \in {"check", "updating", "return"}
             /\ local[rmutex[r].w].r = r
    /\ mutex.w = NoHolder \/ mutex.r = {}
    /\ \A p \in Procs :
          LET blocked == \/ pc[p] \in {"lock", "rm_lock"} /\ mutex # FreeMutex
                         \/ pc[p] = "once" /\ gcOnce = "running" IN
          /\ pc[p] \in {"idle", "once", "init", "lock", "rm_lock"} => ~HoldsLock(p)
          /\ (pc[p] # "idle" /\ ~blocked) => ENABLED ProcStep(p)
    /\ \A i \in DOMAIN tasks :
          LET blocked == tasks[i].pc = "cleaned" /\ mutex # FreeMutex IN
          /\ mutex.w = TaskHolder(i) <=> tasks[i].pc = "locked"
          /\ (tasks[i].pc # "done" /\ ~blocked) => ENABLED TaskStep(i)
    /\ gcOnce = "running" => \E p \in Procs : pc[p] = "init"

\* an update has returned and released both locks while a RemoveRedirect of
\* the other caller and a reader are at the structural lock
C19_Witness ==
    \E p \in Procs : \E q \in Procs \ {p} :
       /\ pc[p] = "idle" /\ pc[q] = "rm_lock"
       /\ mutex = FreeMutex
       /\ \E r \in DOMAIN backend : backend[r].updateCalls = 1 /\ rmutex[r] = FreeRMutex

\* ---- scheduling: a caller inside an operation goes on, a started release
\* goroutine goes on whenever it can ----
\* at most one goroutine per successful RemoveRedirect, which needs a created
\* redirect, so goroutine indices lie in 1..MaxCalls
TaskIds == 1..MaxCalls

TaskStepOf(i) == i \in DOMAIN tasks /\ TaskStep(i)

TaskLockOf(i) == i \in DOMAIN tasks /\ TaskLock(i)

Fairness ==
    /\ \A p \in Procs : WF_vars(ProcStep(p))
    /\ \A i \in TaskIds : WF_vars(TaskStepOf(i))

SpecFair == Spec /\ Fairness

\* a waiting p.mutex.Lock() of the release goroutine is eventually granted
LockHandOff == \A i \in TaskIds : SF_vars(TaskLockOf(i))

\* what a returning RemoveRedirect has done: on success exactly one new
\* goroutine, for the removed Redirect; on "not found" no goroutine and no
\* change of state
RemoveResult ==
    \A p \in Procs :
       (pc[p] = "return" /\ local[p].op = "remove") =>
          /\ ret[p].err \in {"none", "notfound"}
          /\ ret[p].err = "none" =>
                /\ Len(tasks) = pre[p].tasks + 1
                /\ tasks[Len(tasks)].r = local[p].r
                /\ Cardinality({i \in DOMAIN tasks : tasks[i].r = local[p].r}) = 1
                /\ pre[p].redirects[local[p].id] = local[p].r
          /\ ret[p].err = "notfound" =>
                /\ local[p].id \notin DOMAIN pre[p].redirects
                /\ Len(tasks) = pre[p].tasks
                /\ allocatedPorts = pre[p].allocatedPorts
                /\ redirects = pre[p].redirects
                /\ heap = pre[p].heap
                /\ backend = pre[p].backend

Scheduled(i) == i \in DOMAIN tasks /\ tasks[i].pc # "done"

\* the goroutine has deleted its port, which allocatePort can hand out again
Released(i) ==
    /\ i \in DOMAIN tasks /\ tasks[i].pc = "done"
    /\ tasks[i].cleaned \notin DOMAIN allocatedPorts
    /\ tasks[i].cleaned \in allocatePort(rangeMin, rangeMax, allocatedPorts)

====
